---- MODULE Spec2Model ----
(***************************************************************************)
(* Model of the two MkDocs build hooks of the repository:                  *)
(*   hooks/sitemap_extras.py  on_post_build     (sitemap augmenter)        *)
(*   hooks/socialmedia.py     on_page_markdown  (share-link injector)      *)
(*                                                                         *)
(* Strings are sequences of one-character strings, so that concatenation,  *)
(* prefix matching and percent-encoding are computed character by          *)
(* character.  Fixed blocks of template text that no operation looks into  *)
(* are single atoms of such a sequence.                                    *)
(***************************************************************************)
EXTENDS Integers, Sequences, FiniteSets, TLC

\* ------------------------------------------------------------------ bounds
MaxRuns == 2
MaxKids == 1
MaxChildren == 2
MaxMdLen == 2
MaxTitleLen == 2

\* ------------------------------------------------------- generic helpers
\* Python's None; never equal to a string, whose elements are single characters.
None == <<"<None>">>

RECURSIVE SeqsUpTo(_, _)
SeqsUpTo(S, n) ==
    IF n = 0 THEN {<<>>}
    ELSE LET shorter == SeqsUpTo(S, n - 1)
         IN  shorter \cup {Append(s, x) : s \in {t \in shorter : Len(t) = n - 1}, x \in S}

\* str.startswith / a regex literal matched at the current position.
StartsWith(s, p) == Len(s) >= Len(p) /\ SubSeq(s, 1, Len(p)) = p

Drop(s, n) == SubSeq(s, n + 1, Len(s))

RECURSIVE Flatten(_)
Flatten(ss) == IF ss = <<>> THEN <<>> ELSE Head(ss) \o Flatten(Tail(ss))

\* Number of positions of sequence s holding x.
CountIn(s, x) == Cardinality({i \in 1..Len(s) : s[i] = x})

\* ------------------------------------------------------ string literals
S_llms == <<"l","l","m","s",".","t","x","t">>
S_robots == <<"r","o","b","o","t","s",".","t","x","t">>
S_site == <<"h","t","t","p","s",":","/","/","x",".","i","o","/">>
S_siteNoSlash == <<"h","t","t","p","s",":","/","/","x",".","i","o">>
S_date == <<"2","0","2","4">>

\* Values of config.site_url that on_page_markdown is called with, besides None.
SiteUrls == {S_site, S_siteNoSlash}

\* =================================================================
\*                     hooks/sitemap_extras.py
\* =================================================================

\* An element of the parsed tree: its local name in the sitemap namespace,
\* its text and its child elements.
El(tag, text, kids) == [tag |-> tag, text |-> text, kids |-> kids]

\* Text values a loc of an input sitemap may hold: the site root, the two
\* extra URLs, a near miss that differs by a trailing slash, and no text.
LocTexts == {S_site, S_site \o S_llms, S_site \o S_robots,
             S_site \o S_llms \o <<"/">>, None}

Leaves == {El("loc", t, <<>>) : t \in LocTexts} \cup {El("lastmod", S_date, <<>>)}

UrlEls == {El("url", None, k) : k \in SeqsUpTo(Leaves, MaxKids)}

\* Children of the root of an input sitemap: url entries, and a loc placed
\* directly under the root (found by a whole-document iteration as well).
RootChildren == UrlEls \cup {El("loc", S_site \o S_robots, <<>>)}

\* The sitemap file on disk: missing, not well-formed, or a document with or
\* without an XML declaration and the children of its urlset root.
Absent == [kind |-> "absent"]
Malformed == [kind |-> "malformed"]
XmlFile(decl, children) == [kind |-> "xml", decl |-> decl, children |-> children]

InputFiles ==
    {Absent, Malformed} \cup
    {XmlFile(d, c) : d \in BOOLEAN, c \in SeqsUpTo(RootChildren, MaxChildren)}

VARIABLES
    site_url,    \* config['site_url'] / config.site_url
    file,        \* <site_dir>/sitemap.xml
    before,      \* the file as it was when the latest on_post_build started
    result,      \* outcome of the latest on_post_build: none, returned, or the exception
    writes,      \* number of writes to the file system made by on_post_build
    runs,        \* number of on_post_build calls so far
    markdown,    \* on_page_markdown: the markdown argument
    page_url,    \* on_page_markdown: page.url
    page_title,  \* on_page_markdown: page.title
    output,      \* on_page_markdown: the returned string
    md_result    \* outcome of the latest on_page_markdown: none, returned, or the exception

sitemapVars == <<file, before, result, writes, runs>>
pageVars == <<markdown, page_url, page_title, output, md_result>>
vars == <<site_url, file, before, result, writes, runs,
          markdown, page_url, page_title, output, md_result>>

\* Mutant of Exists: the existence check always passes.
ExistsAlways(f) == TRUE

\* sitemap_path.exists()
Exists(f) == f.kind # "absent"

\* Mutant of Parse: a lenient parser that recovers from bad input with an empty root.
ParseRecovering(f) ==
    CASE f.kind = "absent" -> [ok |-> FALSE, error |-> "FileNotFoundError"]
      [] f.kind = "malformed" -> [ok |-> TRUE, root |-> <<>>]
      [] OTHER -> [ok |-> TRUE, root |-> f.children]

\* ET.parse(sitemap_path).getroot(): the root's children, or the exception raised.
\* The XML declaration is not part of the tree.
Parse(f) ==
    CASE f.kind = "absent" -> [ok |-> FALSE, error |-> "FileNotFoundError"]
      [] f.kind = "malformed" -> [ok |-> FALSE, error |-> "ParseError"]
      [] OTHER -> [ok |-> TRUE, root |-> f.children]

\* Mutant of ExtraUrls: the second entry of the list is lost.
ExtraUrlsLlmsOnly(site) == << site \o S_llms >>

ExtraUrls(site) == << site \o S_llms, site \o S_robots >>

\* root.iter('{ns}loc') over a sequence of sibling elements, in document order.
RECURSIVE IterLoc(_)
IterLoc(els) ==
    IF els = <<>> THEN <<>>
    ELSE LET e == Head(els)
         IN  (IF e.tag = "loc" THEN <<e.text>> ELSE <<>>)
             \o IterLoc(e.kids) \o IterLoc(Tail(els))

\* Mutant of Existing: iterating without the namespace finds no loc at all.
ExistingNoNamespace(root) == {}

\* existing = {url_el.text for url_el in root.iter(loc)}
Existing(root) == {IterLoc(root)[i] : i \in 1..Len(IterLoc(root))}

\* Mutant of NewUrlEl: the text is set on the url element, and no loc child is made.
NewUrlElNoLoc(url) == El("url", url, <<>>)

\* The url element built for one extra URL: one loc child holding it as text.
NewUrlEl(url) == El("url", None, <<El("loc", url, <<>>)>>)

\* Mutant of Augment: the membership test is dropped.
RECURSIVE AugmentNoCheck(_, _, _)
AugmentNoCheck(root, extras, existing) ==
    IF extras = <<>> THEN root
    ELSE AugmentNoCheck(Append(root, El("url", None, <<El("loc", Head(extras), <<>>)>>)),
                        Tail(extras), existing)

\* for url in extra_urls: if url not in existing: SubElement(root, url) ...
RECURSIVE Augment(_, _, _)
Augment(root, extras, existing) ==
    IF extras = <<>> THEN root
    ELSE Augment(IF Head(extras) \notin existing
                 THEN Append(root, NewUrlEl(Head(extras)))
                 ELSE root,
                 Tail(extras), existing)

\* tree.write(path, xml_declaration=True, encoding="UTF-8")
Write(root) == XmlFile(TRUE, root)

OnPostBuild ==
    /\ runs < MaxRuns
    /\ runs' = runs + 1
    /\ before' = file
    /\ IF ~Exists(file)
       THEN /\ result' = "returned"
            /\ UNCHANGED <<file, writes>>
       ELSE LET parsed == Parse(file)
            IN  IF ~parsed.ok
                THEN /\ result' = parsed.error
                     /\ UNCHANGED <<file, writes>>
                ELSE /\ file' = Write(Augment(parsed.root, ExtraUrls(site_url),
                                              Existing(parsed.root)))
                     /\ writes' = writes + 1
                     /\ result' = "returned"
    /\ UNCHANGED <<site_url, pageVars>>

InitSitemap ==
    /\ site_url = S_site
    /\ file \in InputFiles
    /\ before = file
    /\ result = "none"
    /\ writes = 0
    /\ runs = 0
    /\ markdown = <<>>
    /\ page_url = <<>>
    /\ page_title = <<>>
    /\ output = <<>>
    /\ md_result = "none"

NextSitemap == OnPostBuild

SpecSitemap == InitSitemap /\ [][NextSitemap]_vars

\* -----------------------------------------------------------------
\*                claims about on_post_build
\* -----------------------------------------------------------------
LlmsUrl == site_url \o S_llms
RobotsUrl == site_url \o S_robots

\* Occurrences of t as the text of a loc anywhere in document f.
LocCount(f, t) == CountIn(IterLoc(f.children), t)

LocValues(f) == {IterLoc(f.children)[i] : i \in 1..Len(IterLoc(f.children))}

IsUrl(e) == e.tag = "url"
UrlEntries(f) == SelectSeq(f.children, IsUrl)

\* The latest on_post_build ran to its end on a well-formed sitemap.
Augmented == runs >= 1 /\ result = "returned" /\ before.kind = "xml"

\* C1 as stated: after a run on a well-formed sitemap each of the two extra
\* URLs occurs exactly once as a loc text, and every loc value present before
\* keeps its number of occurrences.
C1_Original ==
    Augmented =>
        /\ \A x \in {LlmsUrl, RobotsUrl} : LocCount(file, x) = 1
        /\ \A t \in LocValues(before) : LocCount(file, t) = LocCount(before, t)

\* C1 amended: after a run on a well-formed sitemap each extra URL occurs
\* exactly once as a loc text if it occurred at most once before, and keeps
\* its earlier number of occurrences if it occurred more often; every loc
\* value present before keeps its number of occurrences, and no other loc
\* value appears.
C1_ExtrasPresentOthersKept ==
    Augmented =>
        /\ \A x \in {LlmsUrl, RobotsUrl} :
              LocCount(file, x) = IF LocCount(before, x) = 0 THEN 1
                                  ELSE LocCount(before, x)
        /\ \A t \in LocValues(before) : LocCount(file, t) = LocCount(before, t)
        /\ LocValues(file) = LocValues(before) \cup {LlmsUrl, RobotsUrl}

C1_Witness ==
    /\ Augmented
    /\ LocCount(before, LlmsUrl) = 0 /\ LocCount(file, LlmsUrl) = 1
    /\ LocCount(before, RobotsUrl) = 2 /\ LocCount(file, RobotsUrl) = 2

\* C2: on_post_build is idempotent: a run on the output of an earlier run adds
\* no url element, so the url entries and the set of loc values are the same
\* after it as before it, for every further run.
C2_Idempotent ==
    (runs >= 2 /\ result = "returned" /\ before.kind = "xml") =>
        /\ file.children = before.children
        /\ UrlEntries(file) = UrlEntries(before)
        /\ LocValues(file) = LocValues(before)

C2_Witness ==
    /\ runs >= 2 /\ result = "returned" /\ writes >= 2
    /\ file.kind = "xml"
    /\ LocCount(file, LlmsUrl) = 1 /\ LocCount(file, RobotsUrl) = 1
    /\ Len(file.children) >= 3

\* C3: a sitemap with N url entries has N + M url entries after the run, M
\* being the number of extra URLs that were not a loc text before the run.
C3_CountGrowsByMissing ==
    Augmented =>
        Len(UrlEntries(file)) =
            Len(UrlEntries(before))
            + Cardinality({x \in {LlmsUrl, RobotsUrl} : LocCount(before, x) = 0})

C3_Witness ==
    /\ Augmented
    /\ Len(UrlEntries(before)) >= 1
    /\ LocCount(before, LlmsUrl) >= 1 /\ LocCount(before, RobotsUrl) = 0
    /\ Len(UrlEntries(file)) = Len(UrlEntries(before)) + 1

C5_MissingIsNoOp ==
    (runs >= 1 /\ before.kind = "absent") =>
        result = "returned" /\ file = Absent /\ writes = 0

C5_Witness == runs >= 1 /\ before.kind = "absent" /\ result = "returned"

\* C6: on a malformed sitemap the call fails with the parse error and the file
\* is left as it was; no run that fails has written the file.
C6_MalformedFailsUntouched ==
    /\ (runs >= 1 /\ before.kind = "malformed") =>
            result = "ParseError" /\ file = before /\ writes = 0
    /\ (runs >= 1 /\ result # "returned") => file = before

C6_Witness == runs >= 1 /\ before.kind = "malformed" /\ result = "ParseError"

\* =================================================================
\*                       hooks/socialmedia.py
\* =================================================================
S_blogs == <<"b","l","o","g","s">>
S_projects == <<"p","r","o","j","e","c","t","s">>
S_archive == <<"a","r","c","h","i","v","e">>
S_category == <<"c","a","t","e","g","o","r","y">>
S_myPost == <<"m","y","-","p","o","s","t">>
S_archivedPost == <<"a","r","c","h","i","v","e","d","-","p","o","s","t">>
S_archive2023 == <<"a","r","c","h","i","v","e","/","2","0","2","3">>
S_categoryTools == <<"c","a","t","e","g","o","r","y","/","t","o","o","l","s">>
S_categor == <<"c","a","t","e","g","o","r">>
S_nlPost == <<"\n","p","o","s","t">>
S_x == <<"x","/">>
S_blog == <<"b","l","o","g","/">>
S_helloWorld == <<"H","e","l","l","o"," ","W","o","r","l","d">>

x_intent == <<"https://x.com/intent/tweet">>
fb_sharer == <<"https://www.facebook.com/sharer/sharer.php">>

\* Values of page.url: a start of the path followed by a remainder.
PathStarts == {<<>>, S_blogs \o <<"/">>, S_projects \o <<"/">>,
               S_x \o S_blogs \o <<"/">>, S_blog, S_blogs}
PathRests == {<<>>, S_myPost, S_archive, S_archivedPost, S_archive2023,
              S_categoryTools, S_categor, S_nlPost}
PageUrls == {a \o b : a \in PathStarts, b \in PathRests}

\* Values of page.title: no title, short strings over characters that quote()
\* keeps and characters it encodes, and the title of the spec's scenario.
TitleChars == {"a", " ", "&", "\n", "/"}
PageTitles == {None, S_helloWorld} \cup SeqsUpTo(TitleChars, MaxTitleLen)

Markdowns == SeqsUpTo({"#", "\n"}, MaxMdLen)

\* Mutant of IncludeMatch: re.search instead of re.match, the pattern may
\* start anywhere in the path.
RECURSIVE IncludeSearch(_)
IncludeSearch(url) ==
    \/ \E alt \in {S_blogs, S_projects} :
          /\ StartsWith(url, alt \o <<"/">>)
          /\ LET rest == Drop(url, Len(alt) + 1)
             IN  /\ ~StartsWith(rest, S_archive)
                 /\ ~StartsWith(rest, S_category)
                 /\ Len(rest) >= 1 /\ rest[1] # "\n"
    \/ url # <<>> /\ IncludeSearch(Tail(url))

\* Mutant of IncludeMatch: the negative lookahead is missing from the pattern.
IncludeNoLookahead(url) ==
    \E alt \in {S_blogs, S_projects} :
        /\ StartsWith(url, alt \o <<"/">>)
        /\ LET rest == Drop(url, Len(alt) + 1)
           IN  Len(rest) >= 1 /\ rest[1] # "\n"

\* include.match(page.url) for include = (blogs|projects)/(?!archive|category).+
\* match() tries the pattern at position 0 only; after the alternative and the
\* slash the lookahead rejects archive and category, and .+ needs at least one
\* character, which is not a newline.
IncludeMatch(url) ==
    \E alt \in {S_blogs, S_projects} :
        /\ StartsWith(url, alt \o <<"/">>)
        /\ LET rest == Drop(url, Len(alt) + 1)
           IN  /\ ~StartsWith(rest, S_archive)
               /\ ~StartsWith(rest, S_category)
               /\ Len(rest) >= 1 /\ rest[1] # "\n"

\* Characters urllib.parse.quote never encodes, and its default safe="/".
AlwaysSafe ==
    {"a","b","c","d","e","f","g","h","i","j","k","l","m","n","o","p","q","r",
     "s","t","u","v","w","x","y","z",
     "A","B","C","D","E","F","G","H","I","J","K","L","M","N","O","P","Q","R",
     "S","T","U","V","W","X","Y","Z",
     "0","1","2","3","4","5","6","7","8","9","_",".","-","~"}
QuoteSafe == AlwaysSafe \cup {"/"}

\* The two hex digits of the byte of an encoded character.
HexOf(c) ==
    CASE c = " " -> <<"2","0">>
      [] c = "\n" -> <<"0","A">>
      [] c = "&" -> <<"2","6">>
      [] c = "%" -> <<"2","5">>
      [] c = "#" -> <<"2","3">>
      [] c = "?" -> <<"3","F">>
      [] c = "=" -> <<"3","D">>
      [] c = "+" -> <<"2","B">>
      [] c = ":" -> <<"3","A">>

\* urllib.parse.quote(s)
Quote(s) ==
    Flatten([i \in 1..Len(s) |->
                IF s[i] \in QuoteSafe THEN <<s[i]>> ELSE <<"%">> \o HexOf(s[i])])

\* One line of the f-string of on_page_markdown: its leading spaces and the rest.
Line(indent, body) == [indent |-> indent, body |-> body]

\* The f-string between the triple quotes, line by line, after interpolation.
Template(title_q, url) ==
    << Line(0, <<>>),
       Line(4, <<"---">>),
       Line(4, <<"## Stay Updated">>),
       Line(0, <<>>),
       Line(4, <<"Join my newsletter for the latest insights on Document AI, RAG, and LLM technologies:">>),
       Line(0, <<>>),
       Line(4, <<"<div style=...>">>),
       Line(8, <<"<iframe src=https://documentai.substack.com/embed ...></iframe>">>),
       Line(4, <<"</div>">>),
       Line(0, <<>>),
       Line(4, <<"---">>),
       Line(4, <<"## Share This Post">>),
       Line(0, <<>>),
       Line(4, <<"[Share on :simple-x:](">> \o x_intent \o <<"?text=">> \o title_q
               \o <<"&url=">> \o url \o <<"){ .md-button }">>),
       Line(4, <<"[Share on :material-facebook:](">> \o fb_sharer \o <<"?u=">> \o url
               \o <<"){ .md-button }">>),
       Line(4, <<>>) >>

Min(S) == CHOOSE m \in S : \A k \in S : m <= k

\* textwrap.dedent: lines of whitespace only become empty, the others lose the
\* leading whitespace common to all of them.
Dedent(lines) ==
    LET inked == {i \in 1..Len(lines) : lines[i].body # <<>>}
        margin == IF inked = {} THEN 0 ELSE Min({lines[i].indent : i \in inked})
    IN  [i \in 1..Len(lines) |->
            IF lines[i].body = <<>> THEN Line(0, <<>>)
            ELSE Line(lines[i].indent - margin, lines[i].body)]

\* The text of a sequence of lines: the lines joined by newlines.
Text(lines) ==
    Flatten([i \in 1..Len(lines) |->
                (IF i = 1 THEN <<>> ELSE <<"\n">>)
                \o [k \in 1..lines[i].indent |-> " "] \o lines[i].body])

\* a + b on str operands; None on the left raises TypeError.
CanConcat(a, b) == a # None /\ b # None

OnPageMarkdown ==
    /\ md_result = "none"
    /\ IF ~IncludeMatch(page_url)
       THEN /\ output' = markdown
            /\ md_result' = "returned"
       ELSE IF ~CanConcat(site_url, page_url) \/ ~CanConcat(page_title, <<"\n">>)
            THEN /\ md_result' = "TypeError"
                 /\ UNCHANGED output
            ELSE /\ output' = markdown
                        \o Text(Dedent(Template(Quote(page_title \o <<"\n">>),
                                                site_url \o page_url)))
                 /\ md_result' = "returned"
    /\ UNCHANGED <<site_url, markdown, page_url, page_title, sitemapVars>>

InitPage ==
    /\ site_url \in SiteUrls \cup {None}
    /\ markdown \in Markdowns
    /\ page_url \in PageUrls
    /\ page_title \in PageTitles
    /\ output = <<>>
    /\ md_result = "none"
    /\ file = Absent
    /\ before = Absent
    /\ result = "none"
    /\ writes = 0
    /\ runs = 0

NextPage == OnPageMarkdown

SpecPage == InitPage /\ [][NextPage]_vars

\* -----------------------------------------------------------------
\*                claims about on_page_markdown
\* -----------------------------------------------------------------
Called == md_result # "none"

\* The call returned its markdown argument as it was.
PassedThrough == md_result = "returned" /\ output = markdown

\* The call took the branch of an eligible page: it went on to build the
\* trailer, and returned more than its input or failed while building it.
TreatedEligible ==
    \/ md_result = "TypeError"
    \/ md_result = "returned" /\ output # markdown

EligiblePrefixes == {S_blogs \o <<"/">>, S_projects \o <<"/">>}

\* The rule as the claim words it: the path starts with blogs/ or projects/
\* and what follows does not start with archive or category.
PrefixRule(url) ==
    \E pre \in EligiblePrefixes :
        /\ Len(url) >= Len(pre)
        /\ \A i \in 1..Len(pre) : url[i] = pre[i]
        /\ \A ex \in {S_archive, S_category} :
              \E i \in 1..Len(ex) : Len(url) < Len(pre) + i \/ url[Len(pre) + i] # ex[i]

\* The rule with the remainder required to begin with a character that is
\* not a newline.
EligiblePath(url) ==
    /\ PrefixRule(url)
    /\ \E pre \in EligiblePrefixes :
          /\ StartsWith(url, pre)
          /\ Len(url) > Len(pre)
          /\ url[Len(pre) + 1] # "\n"

\* C7 as stated: a page is treated as eligible exactly if its path starts with
\* blogs/ or projects/ and the remainder does not start with archive or
\* category, an empty remainder included.
C7_Original == Called => (TreatedEligible <=> PrefixRule(page_url))

\* C7 amended: a page is treated as eligible exactly if its path starts with
\* blogs/ or projects/ (at its first character) and the remainder is not
\* empty, begins with a character other than a newline, and does not start
\* with archive or category.
C7_EligibleIffPrefixAndRemainder == Called => (TreatedEligible <=> EligiblePath(page_url))

C7_Witness ==
    /\ Called
    /\ page_url = S_blogs \o <<"/">>
    /\ markdown # <<>>
    /\ PassedThrough

\* C8: every page is either eligible or ineligible, never both, and for an
\* ineligible page the markdown is returned unchanged and without an error,
\* whatever the title and the site URL are.
C8_IneligibleIsIdentity ==
    Called =>
        /\ TreatedEligible # PassedThrough
        /\ ~EligiblePath(page_url) => PassedThrough

C8_Witness ==
    /\ Called
    /\ page_url = S_blogs \o <<"/">> \o S_archive2023
    /\ page_title = None /\ site_url = None
    /\ markdown # <<>>
    /\ PassedThrough

\* Position of the first occurrence of x in s.
Pos(s, x) == Min({i \in 1..Len(s) : s[i] = x})
Has(s, x) == \E i \in 1..Len(s) : s[i] = x

\* What stands in s between the first a and the first b after it.
Between(s, a, b) ==
    LET rest == Drop(s, Pos(s, a))
    IN  SubSeq(rest, 1, Pos(rest, b) - 1)

ButtonEnd == "){ .md-button }"
XText(t) == Between(t, "?text=", "&url=")
XUrl(t) == Between(t, "&url=", ButtonEnd)
FbU(t) == Between(t, "?u=", ButtonEnd)

HexDigits == {"0","1","2","3","4","5","6","7","8","9","A","B","C","D","E","F"}

\* s is made of unreserved characters, slashes and complete %XX escapes.
RECURSIVE WellEncoded(_)
WellEncoded(s) ==
    IF s = <<>> THEN TRUE
    ELSE IF s[1] = "%"
         THEN /\ Len(s) >= 3 /\ s[2] \in HexDigits /\ s[3] \in HexDigits
              /\ WellEncoded(Drop(s, 3))
         ELSE s[1] \in AlwaysSafe \cup {"/"} /\ WellEncoded(Tail(s))

\* The character an escape stands for.
Decoded(h) ==
    CASE h = <<"2","0">> -> " "
      [] h = <<"0","A">> -> "\n"
      [] h = <<"2","6">> -> "&"
      [] h = <<"2","5">> -> "%"
      [] OTHER -> "?"

RECURSIVE Unquote(_)
Unquote(s) ==
    IF s = <<>> THEN <<>>
    ELSE IF s[1] = "%" /\ Len(s) >= 3
         THEN <<Decoded(SubSeq(s, 2, 3))>> \o Unquote(Drop(s, 3))
         ELSE <<s[1]>> \o Unquote(Tail(s))

EndsWith(s, p) == Len(s) >= Len(p) /\ SubSeq(s, Len(s) - Len(p) + 1, Len(s)) = p

\* The returned string is the markdown followed by a trailer with the two
\* share links.
HasTrailer ==
    /\ md_result = "returned"
    /\ StartsWith(output, markdown)
    /\ LET t == Drop(output, Len(markdown))
       IN  /\ Has(t, "?text=") /\ Has(t, "&url=") /\ Has(t, "?u=") /\ Has(t, ButtonEnd)
           /\ Pos(t, "?text=") < Pos(t, "&url=") /\ Pos(t, "&url=") < Pos(t, "?u=")

Trailer == Drop(output, Len(markdown))

\* C9: for every eligible page the output is the input markdown followed by
\* a trailer whose X link carries text=<the percent-encoded title and newline,
\* ending in %0A>&url=<site_url + page.url> and whose Facebook link carries
\* u=<the same URL>; the title Hello World gives text=Hello%20World%0A.
C9_TrailerForEveryEligible ==
    (Called /\ EligiblePath(page_url) /\ site_url # None) =>
        /\ HasTrailer
        /\ WellEncoded(XText(Trailer))
        /\ EndsWith(XText(Trailer), <<"%","0","A">>)
        /\ Unquote(XText(Trailer)) = page_title \o <<"\n">>
        /\ XUrl(Trailer) = site_url \o page_url
        /\ FbU(Trailer) = site_url \o page_url
        /\ page_title = S_helloWorld =>
              XText(Trailer) = <<"H","e","l","l","o","%","2","0","W","o","r","l","d","%","0","A">>

\* C10: for an eligible page whose title is missing or empty the call
\* completes without error and the share link carries a well-formed encoded
\* title, just %0A for the empty title.
C10_MissingOrEmptyTitle ==
    (Called /\ EligiblePath(page_url) /\ site_url # None /\ page_title \in {None, <<>>}) =>
        /\ HasTrailer
        /\ WellEncoded(XText(Trailer))
        /\ page_title = <<>> => XText(Trailer) = <<"%","0","A">>

====
